---- MODULE Spec2Model ----
(***************************************************************************)
(* PathReuseDecider (modules/planning/tasks/deciders/path_reuse_decider):  *)
(* the reuse gate of Process, the collision check of IsCollisionFree and   *)
(* the re-basing of TrimHistoryPath.                                       *)
(*                                                                         *)
(* Lengths are integers counted in half metres (0.5 m = 1), speeds in half *)
(* metres per second, so that every constant of the source is an integer.  *)
(* A Cartesian point is [x, y], a PathPoint is [x, y, s] (s the point's    *)
(* own cumulative arc length), an SLPoint is [s, l].                       *)
(***************************************************************************)
EXTENDS Integers, Sequences, FiniteSets, TLC

\* ------------------------------------------------------------------ bounds
MaxCycles == 4
MaxCounter == 3
MaxPathLen == 3
MaxObstacles == 2

\* --------------------------------------------------- constants of the source
kWaitCycle == -2
kSDistBuffer == 60
kTimeBuffer == 3
kSBuffer == 1
kNumExtraTailBoundPoint == 20
kPathBoundsDeciderResolution == 1
\* kMinObstacleArea = 1e-4 m^2 = 1/2500 of a squared half metre
kMinObstacleAreaInv == 2500

\* ------------------------------------------------- external collaborators
\* The reference line: straight, along x, from RefStartX to RefEndX.
RefStartX == 1
RefEndX == 200
\* The vehicle footprint around a path pose (heading along the reference line).
VehicleHalfLength == 2
VehicleHalfWidth == 1

Max(a, b) == IF a >= b THEN a ELSE b
Min(a, b) == IF a <= b THEN a ELSE b

\* A default-constructed common::SLPoint.
DefaultSLPoint == [s |-> 0, l |-> 0]

\* ReferenceLine::XYToSL: whether the projection succeeded; on failure the
\* caller's SLPoint is left as it was constructed.
XYToSLOk(p) == p.x >= RefStartX /\ p.x <= RefEndX

XYToSL(p) ==
  IF XYToSLOk(p) THEN [s |-> p.x - RefStartX, l |-> p.y] ELSE DefaultSLPoint

XY(pt) == [x |-> pt.x, y |-> pt.y]

\* VehicleConfigHelper::GetBoundingBox(path_point).GetAllCorners()
GetAllCorners(pt) ==
  { [x |-> pt.x + dx, y |-> pt.y + dy] :
      dx \in {-VehicleHalfLength, VehicleHalfLength},
      dy \in {-VehicleHalfWidth, VehicleHalfWidth} }

\* Polygon2d::IsPointIn for the axis-aligned quadrilateral of an SL boundary
\* (a point on the boundary is in).
IsPointIn(polygon, sl) ==
  /\ polygon.start_s <= sl.s /\ sl.s <= polygon.end_s
  /\ polygon.start_l <= sl.l /\ sl.l <= polygon.end_l

\* --------------------------------------------------------- IsCollisionFree
\* A filter that keeps virtual obstacles (not the source's).
IsFilteredObstacleKeepsVirtual(obstacle, adc_position_sl) ==
  /\ obstacle.is_static
  /\ ~(obstacle.end_s < adc_position_sl.s - kSBuffer)
  /\ ~((obstacle.end_s - obstacle.start_s) * (obstacle.end_l - obstacle.start_l)
         * kMinObstacleAreaInv < 1)

\* The obstacle filter of IsCollisionFree: static, not virtual, not behind
\* the vehicle, not too small.
IsFilteredObstacle(obstacle, adc_position_sl) ==
  /\ ~(~obstacle.is_static \/ obstacle.is_virtual)
  /\ ~(obstacle.end_s < adc_position_sl.s - kSBuffer)
  /\ ~((obstacle.end_s - obstacle.start_s) * (obstacle.end_l - obstacle.start_l)
         * kMinObstacleAreaInv < 1)

ObstaclePolygons(obstacles, adc_position_sl) ==
  { [start_s |-> o.start_s, end_s |-> o.end_s,
     start_l |-> o.start_l, end_l |-> o.end_l] :
      o \in { ob \in obstacles : IsFilteredObstacle(ob, adc_position_sl) } }

\* One footprint of the scan: a corner that cannot be projected, or a corner
\* inside an obstacle polygon, rejects the path.
FootprintRejects(pt, obstacle_polygons) ==
  \E corner_point \in GetAllCorners(pt) :
     \/ ~XYToSLOk(corner_point)
     \/ \E obstacle_polygon \in obstacle_polygons :
           IsPointIn(obstacle_polygon, XYToSL(corner_point))

\* A scan that already stops at a point exactly the tail reserve before the
\* path's end (not the source's).
RECURSIVE CollisionScanHalfOpen(_, _, _, _, _)
CollisionScanHalfOpen(history_path, i, path_end_position_sl, adc_position_sl, obstacle_polygons) ==
  IF i >= Len(history_path) THEN TRUE
  ELSE LET path_position_sl == XYToSL(XY(history_path[i + 1]))
       IN IF path_end_position_sl.s - path_position_sl.s <=
               kNumExtraTailBoundPoint * kPathBoundsDeciderResolution
          THEN TRUE
          ELSE IF path_position_sl.s < adc_position_sl.s - kSBuffer
          THEN CollisionScanHalfOpen(history_path, i + 1, path_end_position_sl,
                                     adc_position_sl, obstacle_polygons)
          ELSE IF FootprintRejects(history_path[i + 1], obstacle_polygons)
          THEN FALSE
          ELSE CollisionScanHalfOpen(history_path, i + 1, path_end_position_sl,
                                     adc_position_sl, obstacle_polygons)

\* The scan loop of IsCollisionFree from index i (0-based, as in the source).
RECURSIVE CollisionScan(_, _, _, _, _)
CollisionScan(history_path, i, path_end_position_sl, adc_position_sl, obstacle_polygons) ==
  IF i >= Len(history_path) THEN TRUE
  ELSE LET path_position_sl == XYToSL(XY(history_path[i + 1]))
       IN IF path_end_position_sl.s - path_position_sl.s <
               kNumExtraTailBoundPoint * kPathBoundsDeciderResolution
          THEN TRUE
          ELSE IF path_position_sl.s < adc_position_sl.s - kSBuffer
          THEN CollisionScan(history_path, i + 1, path_end_position_sl,
                             adc_position_sl, obstacle_polygons)
          ELSE IF FootprintRejects(history_path[i + 1], obstacle_polygons)
          THEN FALSE
          ELSE CollisionScan(history_path, i + 1, path_end_position_sl,
                             adc_position_sl, obstacle_polygons)

\* history_path.back() is read before the path's size is looked at: on an
\* empty path the read is outside the vector.
CollisionFreeReadsBack(obstacles, adc_position, history_frame) ==
  /\ ObstaclePolygons(obstacles, XYToSL(adc_position)) # {}
  /\ history_frame.present

CollisionFreeBackIsUB(obstacles, adc_position, history_frame) ==
  /\ CollisionFreeReadsBack(obstacles, adc_position, history_frame)
  /\ Len(history_frame.current_frame_planned_path) = 0

\* A checker that accepts when there is no previous frame (not the source's).
IsCollisionFreeAcceptsWithoutHistory(obstacles, adc_position, history_frame, back_point) ==
  LET adc_position_sl == XYToSL(adc_position)
      obstacle_polygons == ObstaclePolygons(obstacles, adc_position_sl)
  IN IF obstacle_polygons = {} THEN TRUE
     ELSE IF ~history_frame.present THEN TRUE
     ELSE CollisionScan(history_frame.current_frame_planned_path, 0,
                        XYToSL(XY(back_point)), adc_position_sl,
                        obstacle_polygons)

\* IsCollisionFree; back_point is what history_path.back() yields.
IsCollisionFree(obstacles, adc_position, history_frame, back_point) ==
  LET adc_position_sl == XYToSL(adc_position)
      obstacle_polygons == ObstaclePolygons(obstacles, adc_position_sl)
  IN IF obstacle_polygons = {} THEN TRUE
     ELSE IF ~history_frame.present THEN FALSE
     ELSE CollisionScan(history_frame.current_frame_planned_path, 0,
                        XYToSL(XY(back_point)), adc_position_sl,
                        obstacle_polygons)

\* What a read outside a vector's elements (history_path.back() or
\* history_path[path_start_index] past the end) can yield when it does not
\* end the process.
StrayPathPoints == { [x |-> 0, y |-> 0, s |-> 0], [x |-> 90, y |-> 3, s |-> 7] }

\* The outcomes of one call of IsCollisionFree: [status, ret].
CollisionFreeOutcomes(obstacles, adc_position, history_frame) ==
  IF CollisionFreeBackIsUB(obstacles, adc_position, history_frame)
  THEN { [status |-> "SEGV", ret |-> FALSE] } \cup
       { [status |-> "OK",
          ret |-> IsCollisionFree(obstacles, adc_position, history_frame, g)] :
            g \in StrayPathPoints }
  ELSE LET history_path == history_frame.current_frame_planned_path
           back_point == IF Len(history_path) > 0
                         THEN history_path[Len(history_path)]
                         ELSE [x |-> 0, y |-> 0, s |-> 0]
       IN { [status |-> "OK",
             ret |-> IsCollisionFree(obstacles, adc_position, history_frame,
                                     back_point)] }

\* --------------------------------------------------------- TrimHistoryPath
\* The loop of TrimHistoryPath from index i (0-based); acc carries
\* path_start_s, path_start_index and trimmed_path.
RECURSIVE TrimLoop(_, _, _, _)
TrimLoop(history_path, adc_position_sl, i, acc) ==
  IF i >= Len(history_path) THEN acc
  ELSE LET path_position_sl == XYToSL(XY(history_path[i + 1]))
       IN IF path_position_sl.s < adc_position_sl.s
          THEN TrimLoop(history_path, adc_position_sl, i + 1,
                        [acc EXCEPT !.path_start_s = path_position_sl.s,
                                    !.path_start_index = @ + 1])
          ELSE LET updated_s == history_path[i + 1].s - acc.path_start_s
               IN TrimLoop(history_path, adc_position_sl, i + 1,
                           [acc EXCEPT !.trimmed_path =
                              Append(@, [history_path[i + 1] EXCEPT !.s = updated_s])])

TrimScan(history_path, adc_position) ==
  TrimLoop(history_path, XYToSL(adc_position), 0,
           [path_start_s |-> 0, path_start_index |-> 0, trimmed_path |-> <<>>])

\* history_path[path_start_index] is read without a look at the path's size.
TrimAnchorIsUB(history_frame, adc_position) ==
  /\ history_frame.present
  /\ TrimScan(history_frame.current_frame_planned_path, adc_position).path_start_index
       >= Len(history_frame.current_frame_planned_path)

\* TrimHistoryPath; anchor_point is what history_path[path_start_index]
\* yields. [ret, path_set, path]: path is handed to
\* frame->set_current_frame_planned_path when path_set.
TrimHistoryPath(history_frame, adc_position, anchor_point) ==
  IF ~history_frame.present
  THEN [ret |-> FALSE, path_set |-> FALSE, path |-> <<>>]
  ELSE LET acc == TrimScan(history_frame.current_frame_planned_path, adc_position)
       IN [ret |-> TRUE, path_set |-> TRUE,
           path |-> <<anchor_point>> \o acc.trimmed_path]

\* The outcomes of one call of TrimHistoryPath: [status, ret, path_set, path].
TrimOutcomes(history_frame, adc_position) ==
  LET Out(anchor_point) ==
        LET r == TrimHistoryPath(history_frame, adc_position, anchor_point)
        IN [status |-> "OK", ret |-> r.ret, path_set |-> r.path_set, path |-> r.path]
  IN IF TrimAnchorIsUB(history_frame, adc_position)
     THEN { [status |-> "SEGV", ret |-> FALSE, path_set |-> FALSE, path |-> <<>>] }
          \cup { Out(g) : g \in StrayPathPoints }
     ELSE IF ~history_frame.present THEN { Out([x |-> 0, y |-> 0, s |-> 0]) }
     ELSE LET history_path == history_frame.current_frame_planned_path
              acc == TrimScan(history_path, adc_position)
          IN { Out(history_path[acc.path_start_index + 1]) }

\* ----------------------------------------------- IsIgnoredBlockingObstacle
\* GetBlockingObstacleS: [found, blocking_obstacle_s].
GetBlockingObstacleS(obstacles, blocking_obstacle_ID) ==
  LET found == { o \in obstacles : o.id = blocking_obstacle_ID }
  IN IF found = {} THEN [found |-> FALSE, blocking_obstacle_s |-> 0]
     ELSE [found |-> TRUE,
           blocking_obstacle_s |-> (CHOOSE o \in found : TRUE).start_s]

GetADCSLPoint(adc_position) == XYToSL(adc_position)

\* A test that also ignores an obstacle at exactly the buffer (not the source's).
IsIgnoredBlockingObstacleAtBuffer(obstacles, adc_position, adc_speed, blocking_obstacle_ID) ==
  LET final_s_buffer == Max(kSDistBuffer, kTimeBuffer * adc_speed)
      adc_position_sl == GetADCSLPoint(adc_position)
      blocking == GetBlockingObstacleS(obstacles, blocking_obstacle_ID)
  IN /\ blocking.found
     /\ blocking.blocking_obstacle_s - adc_position_sl.s >= final_s_buffer

IsIgnoredBlockingObstacle(obstacles, adc_position, adc_speed, blocking_obstacle_ID) ==
  LET final_s_buffer == Max(kSDistBuffer, kTimeBuffer * adc_speed)
      adc_position_sl == GetADCSLPoint(adc_position)
      blocking == GetBlockingObstacleS(obstacles, blocking_obstacle_ID)
  IN /\ blocking.found
     /\ blocking.blocking_obstacle_s - adc_position_sl.s > final_s_buffer

\* ------------------------------------------------------------------ state
VARIABLES
  pc,                                   \* "idle", "ready" (a cycle's inputs are set), "done"
  decider,                              \* the PathReuseDecider object whose Process is called
  reuse_path,                           \* path_reuse_decider_config().reuse_path()
  frame_is_null,                        \* Process's frame argument is nullptr
  reference_line_info_is_null,          \* Process's reference_line_info argument is nullptr
  reused_path,                          \* PlanningStatus path_reuse_decider.reused_path
  front_static_obstacle_cycle_counter,  \* PlanningStatus path_decider (written upstream)
  front_static_obstacle_id,             \* PlanningStatus path_decider (written upstream)
  reusable_path_counter_,
  total_path_counter_,
  obstacles,                            \* reference_line_info->path_decision()->obstacles()
  adc_position,                         \* VehicleStateProvider x(), y()
  linear_velocity,                      \* VehicleStateProvider linear_velocity()
  history_frame,                        \* FrameHistory::Instance()->Latest()
  current_frame_planned_path,           \* frame->current_frame_planned_path()
  last,                                 \* what the last call did
  ever_disabled                         \* line 72 has run at least once

inputs == <<decider, reuse_path, frame_is_null, reference_line_info_is_null,
            front_static_obstacle_cycle_counter, front_static_obstacle_id,
            obstacles, adc_position, linear_velocity, history_frame>>

vars == <<pc, decider, reuse_path, frame_is_null, reference_line_info_is_null, reused_path,
          front_static_obstacle_cycle_counter, front_static_obstacle_id,
          reusable_path_counter_, total_path_counter_, obstacles, adc_position,
          linear_velocity, history_frame, current_frame_planned_path, last,
          ever_disabled>>

Tri(b) == IF b THEN "true" ELSE "false"

NotRun == [branch |-> "none", status |-> "OK", collision_free |-> "not_run",
           trim |-> "not_run", ignored |-> "not_run", path_set |-> FALSE]

NoHistory == [present |-> FALSE, current_frame_planned_path |-> <<>>]

\* ---------------------------------------------------------------- Process
\* Line 62: the branch taken.
TakesReuseBranchAlways(reused) == TRUE

TakesReuseBranch(reused) == reused

\* Lines 64-67: TrimHistoryPath is called when CheckPathReusable returned true.
TrimCalledAlways(collision_free) == TRUE

TrimCalled(collision_free) == collision_free

\* Lines 64-73: the flag after the check.
ReusedPathKept(collision_free) == TRUE

ReusedPathAfterCheck(collision_free) == collision_free

\* Lines 80-82: the enable condition.
EnableReuseAtWaitCycle(counter, ignored) == counter <= kWaitCycle \/ ignored

\* An enable test without the counter (not the source's).
EnableReuseOnlyIgnored(counter, ignored) == ignored

EnableReuse(counter, ignored) == counter < kWaitCycle \/ ignored

\* What Process leaves behind when it changes nothing.
Untouched ==
  [branch |-> "none", status |-> "OK", collision_free |-> "not_run",
   trim |-> "not_run", ignored |-> "not_run", path_set |-> FALSE,
   path |-> current_frame_planned_path, reused_path |-> reused_path,
   reusable |-> reusable_path_counter_, total |-> total_path_counter_]

\* Lines 62-73.
ReuseBranchOutcomes ==
  UNION {
    IF c.status = "SEGV"
    THEN { [Untouched EXCEPT !.branch = "reuse", !.status = "SEGV"] }
    ELSE IF TrimCalled(c.ret)
    THEN { IF t.status = "SEGV"
           THEN [Untouched EXCEPT !.branch = "reuse", !.status = "SEGV",
                                  !.collision_free = Tri(c.ret),
                                  !.reusable = @ + 1]
           ELSE [Untouched EXCEPT !.branch = "reuse",
                                  !.collision_free = Tri(c.ret),
                                  !.trim = Tri(t.ret),
                                  !.path_set = t.path_set,
                                  !.path = IF t.path_set THEN t.path ELSE @,
                                  !.reused_path = ReusedPathAfterCheck(c.ret),
                                  !.reusable = @ + 1,
                                  !.total = @ + 1] :
             t \in TrimOutcomes(history_frame, adc_position) }
    ELSE { [Untouched EXCEPT !.branch = "reuse",
                             !.collision_free = Tri(c.ret),
                             !.reused_path = ReusedPathAfterCheck(c.ret),
                             !.total = @ + 1] } :
    c \in CollisionFreeOutcomes(obstacles, adc_position, history_frame) }

\* An enable branch that returns before the total counter (not the source's).
EnableBranchOutcomesUncounted ==
  LET tested == ~(front_static_obstacle_cycle_counter < kWaitCycle)
      ignored == tested /\ IsIgnoredBlockingObstacle(obstacles, adc_position,
                              linear_velocity, front_static_obstacle_id)
  IN { [Untouched EXCEPT
          !.branch = "enable",
          !.ignored = IF tested THEN Tri(ignored) ELSE "not_run",
          !.reused_path =
             IF EnableReuse(front_static_obstacle_cycle_counter, ignored)
             THEN TRUE ELSE @] }

\* Lines 74-86; IsIgnoredBlockingObstacle is called only when the counter
\* test fails.
EnableBranchOutcomes ==
  LET tested == ~(front_static_obstacle_cycle_counter < kWaitCycle)
      ignored == tested /\ IsIgnoredBlockingObstacle(obstacles, adc_position,
                              linear_velocity, front_static_obstacle_id)
  IN { [Untouched EXCEPT
          !.branch = "enable",
          !.ignored = IF tested THEN Tri(ignored) ELSE "not_run",
          !.reused_path =
             IF EnableReuse(front_static_obstacle_cycle_counter, ignored)
             THEN TRUE ELSE @,
          !.total = @ + 1] }

\* Lines 44-49 and the branch of line 62. The mutant checks the arguments
\* before it looks at the configuration.
ProcessOutcomesCheckFirst ==
  IF frame_is_null \/ reference_line_info_is_null
  THEN { [Untouched EXCEPT !.branch = "check", !.status = "CHECK_FAILED"] }
  ELSE IF ~reuse_path
  THEN { [Untouched EXCEPT !.branch = "pass_through"] }
  ELSE IF TakesReuseBranch(reused_path) THEN ReuseBranchOutcomes
  ELSE EnableBranchOutcomes

ProcessOutcomes ==
  IF ~reuse_path
  THEN { [Untouched EXCEPT !.branch = "pass_through"] }
  ELSE IF frame_is_null \/ reference_line_info_is_null
  THEN { [Untouched EXCEPT !.branch = "check", !.status = "CHECK_FAILED"] }
  ELSE IF TakesReuseBranch(reused_path) THEN ReuseBranchOutcomes
  ELSE EnableBranchOutcomes

Process ==
  /\ pc = "ready"
  /\ \E o \in ProcessOutcomes :
       /\ reused_path' = o.reused_path
       /\ reusable_path_counter_' = o.reusable
       /\ total_path_counter_' = o.total
       /\ current_frame_planned_path' = o.path
       /\ last' = [branch |-> o.branch, status |-> o.status,
                   collision_free |-> o.collision_free, trim |-> o.trim,
                   ignored |-> o.ignored, path_set |-> o.path_set]
       /\ ever_disabled' = (ever_disabled \/ (reused_path /\ ~o.reused_path))
  /\ pc' = "done"
  /\ UNCHANGED inputs

\* ------------------------------------------------------------ environment
\* A path through the given x positions on the reference line's axis, its arc
\* length counted from its first point.
MkPath(xs) == [i \in 1..Len(xs) |-> [x |-> xs[i], y |-> 0, s |-> xs[i] - xs[1]]]

PathXs == {0, 2, 9, 13, 25, 45}

\* Every forward path of at most MaxPathLen points over PathXs.
Paths ==
  { MkPath(xs) :
      xs \in { q \in UNION { [1..n -> PathXs] : n \in 0..MaxPathLen } :
                 \A i \in 1..(Len(q) - 1) : q[i] <= q[i + 1] } }

Obstacle(id, is_static, is_virtual, start_s, end_s, start_l, end_l) ==
  [id |-> id, is_static |-> is_static, is_virtual |-> is_virtual,
   start_s |-> start_s, end_s |-> end_s, start_l |-> start_l, end_l |-> end_l]

ObsNear == Obstacle("near", TRUE, FALSE, 10, 14, -1, 1)
ObsFar == Obstacle("far", TRUE, FALSE, 70, 74, -1, 1)
ObsDynamic == Obstacle("dynamic", FALSE, FALSE, 10, 14, -1, 1)
ObsVirtual == Obstacle("virtual", TRUE, TRUE, 10, 14, -1, 1)
ObsTiny == Obstacle("tiny", TRUE, FALSE, 10, 10, -1, 1)
ObsBehind == Obstacle("behind", TRUE, FALSE, -6, -3, -1, 1)
ObsOffside == Obstacle("offside", TRUE, FALSE, 10, 14, 5, 7)
ObsTail == Obstacle("tail", TRUE, FALSE, 21, 23, -1, 1)

UpTo(choices, n) == { S \in SUBSET choices : Cardinality(S) <= n }

\* The planning cycles of the gate.
GateObstacles == UpTo({ObsNear, ObsFar}, MaxObstacles)
GateAdcPosition == [x |-> 7, y |-> 0]
GateSpeeds == {0, 30}
GateHistories ==
  { NoHistory } \cup
  { [present |-> TRUE, current_frame_planned_path |-> p] :
      p \in { <<>>, MkPath(<<2>>), MkPath(<<2, 9, 45>>) } }

\* The upstream stage's update of the front static obstacle between two
\* calls of Process: the counter counts the consecutive cycles with
\* (positive) or without (negative) a blocking obstacle.
CounterAfter(counter, blocking) ==
  IF blocking THEN Min(Max(counter, 0) + 1, MaxCounter)
  ELSE Max(Min(counter, 0) - 1, -MaxCounter)

BlockingCandidates ==
  { "" } \cup { o.id : o \in { ob \in obstacles : ob.is_static /\ ~ob.is_virtual } }

UpdateFrontStaticObstacle ==
  \E blocking_id \in BlockingCandidates :
     /\ front_static_obstacle_cycle_counter' =
          CounterAfter(front_static_obstacle_cycle_counter, blocking_id # "")
     /\ front_static_obstacle_id' =
          IF blocking_id # "" THEN blocking_id ELSE front_static_obstacle_id

Running ==
  /\ pc \in {"idle", "done"}
  /\ last.status = "OK"
  /\ total_path_counter_ < MaxCycles

\* The inputs of a cycle: a new frame and reference line info.
CycleInputs ==
  /\ Running
  /\ pc' = "ready"
  /\ UpdateFrontStaticObstacle
  /\ frame_is_null' = FALSE
  /\ reference_line_info_is_null' = FALSE
  /\ obstacles' \in GateObstacles
  /\ adc_position' = GateAdcPosition
  /\ linear_velocity' \in GateSpeeds
  /\ history_frame' \in GateHistories
  /\ current_frame_planned_path' = <<>>
  /\ last' = NotRun
  /\ UNCHANGED <<reused_path, reusable_path_counter_, total_path_counter_,
                 ever_disabled>>

\* The pipeline starts a cycle of the one decider.
NewFrame == CycleInputs /\ UNCHANGED <<decider, reuse_path>>

\* The pipeline calls Process with a null argument.
NewFrameNull ==
  /\ Running
  /\ pc' = "ready"
  /\ UpdateFrontStaticObstacle
  /\ \E f \in BOOLEAN, r \in BOOLEAN :
        /\ f \/ r
        /\ frame_is_null' = f
        /\ reference_line_info_is_null' = r
  /\ obstacles' = {}
  /\ adc_position' = GateAdcPosition
  /\ linear_velocity' = 0
  /\ history_frame' = NoHistory
  /\ current_frame_planned_path' = <<>>
  /\ last' = NotRun
  /\ UNCHANGED <<decider, reuse_path, reused_path, reusable_path_counter_,
                 total_path_counter_, ever_disabled>>

Init ==
  /\ pc = "idle"
  /\ decider = "A"
  /\ reuse_path \in BOOLEAN
  /\ frame_is_null = FALSE
  /\ reference_line_info_is_null = FALSE
  /\ reused_path = FALSE
  /\ front_static_obstacle_cycle_counter = 0
  /\ front_static_obstacle_id = ""
  /\ reusable_path_counter_ = 0
  /\ total_path_counter_ = 0
  /\ obstacles = {}
  /\ adc_position = GateAdcPosition
  /\ linear_velocity = 0
  /\ history_frame = NoHistory
  /\ current_frame_planned_path = <<>>
  /\ last = NotRun
  /\ ever_disabled = FALSE

Next == NewFrame \/ NewFrameNull \/ Process

Spec == Init /\ [][Next]_vars

\* The planning pipeline is cyclic: while the process runs it goes on
\* starting cycles, and a cycle whose inputs are set calls Process, which
\* runs to its end without waiting for anything.
SpecLive == Init /\ [][Next]_vars /\ WF_vars(NewFrame) /\ WF_vars(Process)

\* ------------------------------------------ several deciders in one process
\* The PathReuseDecider objects of one process, each constructed with its own
\* TaskConfig: the pipelines of "A" and "B" have reuse enabled, "C" has it
\* disabled. The counters are static members and reused_path is in the
\* PlanningContext singleton, so the objects work on the same variables.
Deciders == {"A", "B", "C"}

DeciderReusePath == [d \in Deciders |-> d # "C"]

\* A pipeline starts a cycle of its decider.
NewFrameOf ==
  \E d \in Deciders :
     /\ CycleInputs
     /\ decider' = d
     /\ reuse_path' = DeciderReusePath[d]

InitTwo == Init /\ reuse_path = DeciderReusePath[decider]

NextTwo == NewFrameOf \/ NewFrameNull \/ Process

SpecTwo == InitTwo /\ [][NextTwo]_vars

\* ------------------------------------------- the two functions on their own
\* IsCollisionFree and TrimHistoryPath, each called once on inputs drawn from
\* bounded sets.
FnObstacles ==
  UpTo({ObsNear, ObsFar, ObsDynamic, ObsVirtual, ObsTiny, ObsBehind, ObsOffside, ObsTail},
       MaxObstacles)
FnAdcPositions == { [x |-> ax, y |-> 0] : ax \in {0, 2, 7, 13, 50} }
FnHistories ==
  { NoHistory } \cup
  { [present |-> TRUE, current_frame_planned_path |-> p] : p \in Paths }

InitFn ==
  /\ pc = "ready"
  /\ decider = "A"
  /\ reuse_path = TRUE
  /\ frame_is_null = FALSE
  /\ reference_line_info_is_null = FALSE
  /\ reused_path = TRUE
  /\ front_static_obstacle_cycle_counter = 0
  /\ front_static_obstacle_id = ""
  /\ reusable_path_counter_ = 0
  /\ total_path_counter_ = 0
  /\ obstacles \in FnObstacles
  /\ adc_position \in FnAdcPositions
  /\ linear_velocity = 0
  /\ history_frame \in FnHistories
  /\ current_frame_planned_path = <<>>
  /\ last = NotRun
  /\ ever_disabled = FALSE

CallIsCollisionFree ==
  /\ pc = "ready"
  /\ \E c \in CollisionFreeOutcomes(obstacles, adc_position, history_frame) :
       last' = [NotRun EXCEPT !.branch = "IsCollisionFree",
                              !.status = c.status,
                              !.collision_free =
                                 IF c.status = "OK" THEN Tri(c.ret) ELSE "not_run"]
  /\ pc' = "done"
  /\ UNCHANGED <<inputs, reused_path, reusable_path_counter_, total_path_counter_,
                 current_frame_planned_path, ever_disabled>>

CallTrimHistoryPath ==
  /\ pc = "ready"
  /\ \E t \in TrimOutcomes(history_frame, adc_position) :
       /\ last' = [NotRun EXCEPT !.branch = "TrimHistoryPath",
                                 !.status = t.status,
                                 !.trim = IF t.status = "OK" THEN Tri(t.ret)
                                          ELSE "not_run",
                                 !.path_set = t.path_set]
       /\ current_frame_planned_path' =
            IF t.path_set THEN t.path ELSE current_frame_planned_path
  /\ pc' = "done"
  /\ UNCHANGED <<inputs, reused_path, reusable_path_counter_, total_path_counter_,
                 ever_disabled>>

NextFn == CallIsCollisionFree \/ CallTrimHistoryPath

SpecFn == InitFn /\ [][NextFn]_vars

\* ----------------------------------------- IsIgnoredBlockingObstacle alone
\* IsIgnoredBlockingObstacle called once on inputs drawn from bounded sets:
\* obstacles nearer than, at and beyond the buffer, and an id that may name
\* no obstacle of the list.
ObsAtBuffer == Obstacle("at_buffer", TRUE, FALSE, 66, 70, -1, 1)
IgnoreObstacles == UpTo({ObsNear, ObsFar, ObsAtBuffer}, MaxObstacles)
IgnoreAdcPositions == { [x |-> ax, y |-> 0] : ax \in {3, 5, 7} }
IgnoreSpeeds == {0, 20, 22}
IgnoreIds == {"", "near", "far", "at_buffer"}

InitIgnored ==
  /\ pc = "ready"
  /\ decider = "A"
  /\ reuse_path = TRUE
  /\ frame_is_null = FALSE
  /\ reference_line_info_is_null = FALSE
  /\ reused_path = FALSE
  /\ front_static_obstacle_cycle_counter = 0
  /\ front_static_obstacle_id \in IgnoreIds
  /\ reusable_path_counter_ = 0
  /\ total_path_counter_ = 0
  /\ obstacles \in IgnoreObstacles
  /\ adc_position \in IgnoreAdcPositions
  /\ linear_velocity \in IgnoreSpeeds
  /\ history_frame = NoHistory
  /\ current_frame_planned_path = <<>>
  /\ last = NotRun
  /\ ever_disabled = FALSE

CallIsIgnoredBlockingObstacle ==
  /\ pc = "ready"
  /\ last' = [NotRun EXCEPT
                !.branch = "IsIgnoredBlockingObstacle",
                !.ignored = Tri(IsIgnoredBlockingObstacle(obstacles, adc_position,
                                   linear_velocity, front_static_obstacle_id))]
  /\ pc' = "done"
  /\ UNCHANGED <<inputs, reused_path, reusable_path_counter_, total_path_counter_,
                 current_frame_planned_path, ever_disabled>>

NextIgnored == CallIsIgnoredBlockingObstacle

SpecIgnored == InitIgnored /\ [][NextIgnored]_vars

\* ================================================================ claims
ProcessStep == pc = "ready" /\ pc' = "done"

PathUnchanged == current_frame_planned_path' = current_frame_planned_path

\* Some outcome of the Collision Checker on the cycle's inputs is an accept.
CheckerWouldAccept ==
  \E c \in CollisionFreeOutcomes(obstacles, adc_position, history_frame) :
     c.status = "OK" /\ c.ret

\* C1: Process replaces the frame's planned path in a cycle only if
\* reused_path was true when the cycle started and the Collision Checker
\* returned true in that cycle; in a cycle where the checker rejects, the
\* planned path is not replaced.
C1_ReplaceOnlyAfterAcceptedCheck ==
  [][ProcessStep =>
       /\ (last'.path_set \/ ~PathUnchanged)
            => (reuse_path /\ reused_path /\ last'.collision_free = "true")
       /\ last'.collision_free = "false" => (~last'.path_set /\ PathUnchanged)]_vars

C1_Witness ==
  /\ pc = "done" /\ last.path_set /\ last.collision_free = "true"
  /\ obstacles # {} /\ Len(current_frame_planned_path) > 1

\* C2 as claimed: at the end of every cycle reused_path is true only if the
\* previous-cycle path is collision-free against that cycle's obstacles (the
\* Collision Checker would accept it on that cycle's inputs), also in a cycle
\* that started with reused_path false. Stated for the cycles that have a
\* previous path with points in it.
C2_TrueOnlyIfCollisionFree ==
  (/\ pc = "done" /\ last.status = "OK" /\ reused_path
   /\ history_frame.present
   /\ Len(history_frame.current_frame_planned_path) > 0)
    => CheckerWouldAccept

\* C2 as amended: at the end of a cycle that started with reused_path true
\* and in which Process returned, reused_path is true only if the Collision
\* Checker ran and accepted the previous path on that cycle's inputs.
C2_TrueAfterReuseOnlyIfAccepted ==
  [][(ProcessStep /\ reuse_path /\ reused_path /\ last'.status = "OK" /\ reused_path')
       => (last'.collision_free = "true" /\ CheckerWouldAccept)]_vars

C2_Witness ==
  /\ pc = "done" /\ last.branch = "reuse" /\ last.status = "OK" /\ reused_path
  /\ last.collision_free = "true" /\ ObsNear \in obstacles

\* C3: in a cycle that starts with reused_path true and in which the
\* Collision Checker rejects, reused_path is false when Process returns in
\* that same cycle, and the frame's planned path is left as it was.
C3_RejectionDisablesInSameCycle ==
  [][(ProcessStep /\ reused_path /\ last'.collision_free = "false")
       => /\ last'.status = "OK"
          /\ ~reused_path'
          /\ PathUnchanged /\ ~last'.path_set /\ last'.trim = "not_run"]_vars

C3_Witness ==
  /\ pc = "done" /\ last.branch = "reuse" /\ last.collision_free = "false"
  /\ ~reused_path /\ ever_disabled

\* The consecutive cycles without a blocking obstacle, as the counter tells.
NonBlockingCycles ==
  IF front_static_obstacle_cycle_counter < 0
  THEN -front_static_obstacle_cycle_counter ELSE 0

IgnoredNow ==
  IsIgnoredBlockingObstacle(obstacles, adc_position, linear_velocity,
                            front_static_obstacle_id)

\* C4 as claimed: once reused_path has been set to false, the gate sets it
\* back to true only after at least |kWaitCycle| = 2 consecutive cycles
\* without a blocking obstacle.
C4_ReenableOnlyAfterWait ==
  [][(ProcessStep /\ ever_disabled /\ ~reused_path /\ reused_path')
       => NonBlockingCycles >= -kWaitCycle]_vars

\* C4 as amended: the gate sets reused_path from false to true only if the
\* counter is below kWaitCycle (more than 2 consecutive cycles without a
\* blocking obstacle; a counter of exactly -2 does not re-enable) or the
\* blocking obstacle is further ahead than the buffer
\* (IsIgnoredBlockingObstacle).
C4_ReenableOnlyAfterWaitOrIgnored ==
  [][(ProcessStep /\ ~reused_path /\ reused_path')
       => \/ (front_static_obstacle_cycle_counter < kWaitCycle
                /\ NonBlockingCycles > -kWaitCycle)
          \/ IgnoredNow]_vars

C4_Witness ==
  /\ pc = "done" /\ last.branch = "enable" /\ ever_disabled /\ reused_path
  /\ front_static_obstacle_cycle_counter > 0

\* C5: in a cycle that starts with reused_path false, Process runs neither
\* the Collision Checker nor the Path Trimmer and leaves the frame's planned
\* path unchanged, whether or not the flag is flipped to true in that cycle.
C5_NoCheckNoTrimWhenDisabled ==
  [][(ProcessStep /\ ~reused_path)
       => /\ last'.collision_free = "not_run"
          /\ last'.trim = "not_run"
          /\ ~last'.path_set
          /\ PathUnchanged
          /\ reusable_path_counter_' = reusable_path_counter_]_vars

C5_Witness ==
  /\ pc = "done" /\ last.branch = "enable" /\ reused_path
  /\ last.collision_free = "not_run" /\ current_frame_planned_path = <<>>
  /\ history_frame.present /\ Len(history_frame.current_frame_planned_path) > 0

NullArgument == frame_is_null \/ reference_line_info_is_null

\* C6 as claimed: called with a null frame or reference_line_info, Process
\* ends the cycle without terminating the process and with the gate state
\* unchanged, for every configuration value.
C6_NullNeverCrashes ==
  [][(ProcessStep /\ NullArgument)
       => (last'.status = "OK" /\ reused_path' = reused_path /\ PathUnchanged)]_vars

\* C6 as amended: called with a null frame or reference_line_info, Process
\* changes neither the gate state, nor the counters, nor the planned path and
\* calls neither checker nor trimmer; it returns OK when reuse is disabled in
\* the configuration, and with reuse enabled CHECK_NOTNULL ends the process.
C6_NullPassesOnlyWhenDisabled ==
  [][(ProcessStep /\ NullArgument)
       => /\ reused_path' = reused_path /\ PathUnchanged
          /\ reusable_path_counter_' = reusable_path_counter_
          /\ total_path_counter_' = total_path_counter_
          /\ last'.collision_free = "not_run" /\ last'.trim = "not_run"
          /\ (~reuse_path => last'.status = "OK")
          /\ (reuse_path => last'.status = "CHECK_FAILED")]_vars

C6_Witness ==
  pc = "done" /\ NullArgument /\ reuse_path /\ last.status = "CHECK_FAILED"

\* ------------------------------------------- claims about the two functions
CheckerReturned ==
  pc = "done" /\ last.branch = "IsCollisionFree" /\ last.status = "OK"

TrimmerRan == pc = "done" /\ last.branch = "TrimHistoryPath"

HistoryPath == history_frame.current_frame_planned_path

\* Whether the scan of IsCollisionFree, from index i on, performs a
\* conversion that fails: of a path point it reaches, or of a corner of a
\* footprint it tests.
RECURSIVE ScanMeetsFailure(_, _, _, _, _)
ScanMeetsFailure(history_path, i, path_end_position_sl, adc_position_sl, obstacle_polygons) ==
  IF i >= Len(history_path) THEN FALSE
  ELSE LET pt == history_path[i + 1]
           path_position_sl == XYToSL(XY(pt))
           rest == ScanMeetsFailure(history_path, i + 1, path_end_position_sl,
                                    adc_position_sl, obstacle_polygons)
       IN \/ ~XYToSLOk(XY(pt))
          \/ /\ ~(path_end_position_sl.s - path_position_sl.s <
                    kNumExtraTailBoundPoint * kPathBoundsDeciderResolution)
             /\ IF path_position_sl.s < adc_position_sl.s - kSBuffer THEN rest
                ELSE \/ \E corner_point \in GetAllCorners(pt) : ~XYToSLOk(corner_point)
                     \/ (~FootprintRejects(pt, obstacle_polygons) /\ rest)

\* Some Cartesian-to-curvilinear conversion that IsCollisionFree performs on
\* the inputs fails: the vehicle position, the path's end point, a scanned
\* path point or a footprint corner.
CheckerProjectionFails ==
  \/ ~XYToSLOk(adc_position)
  \/ /\ CollisionFreeReadsBack(obstacles, adc_position, history_frame)
     /\ Len(HistoryPath) > 0
     /\ \/ ~XYToSLOk(XY(HistoryPath[Len(HistoryPath)]))
        \/ ScanMeetsFailure(HistoryPath, 0, XYToSL(XY(HistoryPath[Len(HistoryPath)])),
                            XYToSL(adc_position),
                            ObstaclePolygons(obstacles, XYToSL(adc_position)))

\* C7: IsCollisionFree fails closed: when a conversion it performs fails (the
\* vehicle position, the previous path's end point, a scanned path point or a
\* footprint corner), it returns false.
C7_CheckerFailsClosed ==
  (CheckerReturned /\ CheckerProjectionFails) => last.collision_free = "false"

\* Some conversion that TrimHistoryPath performs fails: the vehicle position
\* or a point of the previous path.
TrimmerProjectionFails ==
  /\ history_frame.present
  /\ \/ ~XYToSLOk(adc_position)
     \/ \E i \in 1..Len(HistoryPath) : ~XYToSLOk(XY(HistoryPath[i]))

\* C8: TrimHistoryPath aborts on a projection failure: when the conversion of
\* the vehicle position or of a previous-path point fails, it returns false
\* and does not replace the frame's planned path. Stated for the calls whose
\* anchor read is inside the path.
C8_TrimmerAbortsOnProjectionFailure ==
  (/\ TrimmerRan /\ TrimmerProjectionFails
   /\ ~TrimAnchorIsUB(history_frame, adc_position))
    => (last.trim = "false" /\ ~last.path_set /\ current_frame_planned_path = <<>>)

\* C9: with a previous-cycle path that exists and is empty, TrimHistoryPath
\* returns false without reading a path element and without replacing the
\* frame's planned path, and the cycle ends like a Collision Checker
\* rejection.
C9_EmptyPathTrimFails ==
  (/\ pc = "done" /\ last.branch = "reuse" /\ last.collision_free = "true"
   /\ history_frame.present /\ Len(HistoryPath) = 0)
    => (/\ last.status = "OK" /\ last.trim = "false"
        /\ ~last.path_set /\ current_frame_planned_path = <<>>)

\* The indices (1-based) of the previous-path points behind the vehicle.
BehindIndices ==
  { i \in 1..Len(HistoryPath) :
      XYToSL(XY(HistoryPath[i])).s < XYToSL(adc_position).s }

LastBehind == CHOOSE i \in BehindIndices : \A j \in BehindIndices : j <= i

NonDecreasingS(path) == \A j \in 1..(Len(path) - 1) : path[j].s <= path[j + 1].s

\* C10: with path_start_index the index of the last previous-path point whose
\* curvilinear s is below adc_s and path_start_s that point's original arc
\* length, the trimmed path's first point is the point at path_start_index
\* with its s unchanged, every subsequent point is a point of the previous
\* path's tail with s = original s - path_start_s, and the trimmed path's s
\* values are non-decreasing. Stated for the calls in which every projection
\* succeeds and the anchor read is inside the path.
C10_TrimRebasing ==
  (/\ TrimmerRan /\ history_frame.present
   /\ NonDecreasingS(HistoryPath) /\ BehindIndices # {}
   /\ ~TrimmerProjectionFails
   /\ ~TrimAnchorIsUB(history_frame, adc_position))
    => LET out == current_frame_planned_path
           path_start_s == HistoryPath[LastBehind].s
           shift == Len(HistoryPath) - Len(out)
       IN /\ last.status = "OK" /\ last.path_set
          /\ Len(out) >= 1 /\ Len(out) <= Len(HistoryPath) + 1
          /\ out[1] = HistoryPath[LastBehind]
          /\ \A j \in 2..Len(out) :
                out[j] = [HistoryPath[shift + j] EXCEPT !.s = @ - path_start_s]
          /\ NonDecreasingS(out)

\* An obstacle the claims call relevant: static, not virtual, with an SL box
\* of area at least 1e-4 m^2 whose end_s is not below adc_s - 0.5 m.
RelevantObstacle(o) ==
  /\ o.is_static /\ ~o.is_virtual
  /\ (o.end_s - o.start_s) * (o.end_l - o.start_l) * kMinObstacleAreaInv >= 1
  /\ o.end_s >= XYToSL(adc_position).s - kSBuffer

\* C11: when no obstacle of the list is static, non-virtual, of SL-box area
\* at least 1e-4 and with end_s >= adc_s - 0.5, IsCollisionFree returns true
\* for every previous path, also when there is no previous frame or the
\* previous path is empty.
C11_NoRelevantObstacleAccepts ==
  (/\ pc = "done" /\ last.branch = "IsCollisionFree"
   /\ \A o \in obstacles : ~RelevantObstacle(o))
    => (last.status = "OK" /\ last.collision_free = "true")

C11_Witness ==
  /\ CheckerReturned /\ last.collision_free = "true"
  /\ obstacles # {} /\ \A o \in obstacles : ~RelevantObstacle(o)
  /\ ~history_frame.present

\* C12: with at least one relevant obstacle and no previous-cycle frame,
\* IsCollisionFree returns false, and a cycle that started with reused_path
\* true ends with reused_path false and without a trimmed path: the frame's
\* planned path is left as it was.
C12_MissingHistoryRejects ==
  [][(/\ ProcessStep /\ reuse_path /\ ~NullArgument /\ reused_path
      /\ ~history_frame.present
      /\ \E o \in obstacles : RelevantObstacle(o))
       => /\ last'.status = "OK"
          /\ last'.collision_free = "false"
          /\ ~reused_path'
          /\ last'.trim = "not_run" /\ ~last'.path_set /\ PathUnchanged]_vars

C12_Witness ==
  /\ pc = "done" /\ last.branch = "reuse" /\ last.collision_free = "false"
  /\ ~history_frame.present /\ \E o \in obstacles : RelevantObstacle(o)
  /\ ~reused_path /\ ever_disabled /\ current_frame_planned_path = <<>>

\* The curvilinear s of the i-th point (1-based) of the previous path.
PathS(i) == XYToSL(XY(HistoryPath[i])).s

PathEndS == PathS(Len(HistoryPath))

\* The tail reserve: 20 points of 0.5 m, 10 m.
TailReserve == kNumExtraTailBoundPoint * kPathBoundsDeciderResolution

\* A corner of the vehicle footprint at the i-th path point lies inside the
\* SL box of a relevant obstacle.
FootprintHits(i) ==
  \E corner_point \in GetAllCorners(HistoryPath[i]), o \in obstacles :
     RelevantObstacle(o) /\ IsPointIn(o, XYToSL(corner_point))

\* The calls of IsCollisionFree that C13 is about: a relevant obstacle, a
\* previous path with points and non-decreasing curvilinear s, and every
\* conversion succeeding (the vehicle position, the path points, the corners
\* of the points not behind the vehicle).
ScanPrecondition ==
  /\ CheckerReturned
  /\ \E o \in obstacles : RelevantObstacle(o)
  /\ history_frame.present /\ Len(HistoryPath) > 0
  /\ XYToSLOk(adc_position)
  /\ \A i \in 1..Len(HistoryPath) : XYToSLOk(XY(HistoryPath[i]))
  /\ \A i \in 1..(Len(HistoryPath) - 1) : PathS(i) <= PathS(i + 1)
  /\ \A i \in 1..Len(HistoryPath) :
        PathS(i) >= XYToSL(adc_position).s - kSBuffer
          => \A corner_point \in GetAllCorners(HistoryPath[i]) : XYToSLOk(corner_point)

\* C13 as claimed: IsCollisionFree returns false iff some path point with s
\* in the half-open window [adc_s - 0.5, path_end_s - 10) has a footprint
\* corner inside a polygon; a point with s exactly path_end_s - 10 never
\* causes rejection.
C13_ScanWindowHalfOpen ==
  ScanPrecondition
    => (last.collision_free = "false"
          <=> \E i \in 1..Len(HistoryPath) :
                 /\ PathS(i) >= XYToSL(adc_position).s - kSBuffer
                 /\ PathS(i) < PathEndS - TailReserve
                 /\ FootprintHits(i))

\* C13 as amended: IsCollisionFree returns false iff some path point with s
\* in the closed window [adc_s - 0.5, path_end_s - 10] has a footprint corner
\* inside a polygon; points with s > path_end_s - 10 and points with
\* s < adc_s - 0.5 never cause rejection.
C13_ScanWindowClosed ==
  ScanPrecondition
    => (last.collision_free = "false"
          <=> \E i \in 1..Len(HistoryPath) :
                 /\ PathS(i) >= XYToSL(adc_position).s - kSBuffer
                 /\ PathS(i) <= PathEndS - TailReserve
                 /\ FootprintHits(i))

C13_Witness ==
  /\ ScanPrecondition /\ last.collision_free = "false"
  /\ \A i \in 1..Len(HistoryPath) :
        FootprintHits(i) => PathS(i) = PathEndS - TailReserve

\* C14 (session isolation): the gate state and the two counters belong to
\* the pipeline of one decider, so a cycle of another decider in the same
\* process leaves them as they were; the values that the pipeline of "A"
\* reads are then those of a run in which the others had not run.
C14_DecidersIsolated ==
  [][(ProcessStep /\ decider # "A")
       => /\ reused_path' = reused_path
          /\ reusable_path_counter_' = reusable_path_counter_
          /\ total_path_counter_' = total_path_counter_]_vars

\* C15 as claimed: total_path_counter_ never decreases and is incremented
\* exactly once in every invocation of Process that returns, whatever the
\* configuration and whatever branch is taken.
C15_TotalCountsEveryInvocation ==
  [][/\ total_path_counter_' >= total_path_counter_
     /\ (ProcessStep /\ last'.status = "OK")
          => total_path_counter_' = total_path_counter_ + 1]_vars

\* C15 as amended: total_path_counter_ never decreases and is incremented
\* exactly once in every invocation of Process that runs with reuse enabled
\* in the configuration and returns, in whichever branch; an invocation with
\* reuse disabled, or one that does not return, leaves it as it was, and so
\* does every step that is not an invocation of Process.
C15_TotalCountsEnabledInvocations ==
  [][total_path_counter_' =
       total_path_counter_
         + (IF ProcessStep /\ reuse_path /\ last'.status = "OK" THEN 1 ELSE 0)]_vars

C15_Witness ==
  /\ pc = "done" /\ ~reuse_path /\ last.branch = "pass_through"
  /\ total_path_counter_ >= 2 /\ reusable_path_counter_ >= 1

\* C16: reusable_path_counter_ is incremented in a cycle if and only if reuse
\* was accepted in that cycle, that is the Collision Checker accepted and the
\* trimmed path was handed to the pipeline; it is not incremented when
\* TrimHistoryPath fails.
C16_ReusableCountsAcceptedReuse ==
  [][(ProcessStep /\ last'.status = "OK")
       => /\ reusable_path_counter_' \in
               {reusable_path_counter_, reusable_path_counter_ + 1}
          /\ (reusable_path_counter_' = reusable_path_counter_ + 1
                <=> (last'.collision_free = "true" /\ last'.trim = "true"
                       /\ last'.path_set))]_vars

\* C17: with reuse disabled in the configuration, Process is a pass-through:
\* it returns OK with reused_path unchanged, runs neither the Collision
\* Checker nor the Path Trimmer nor the enable test, and leaves the frame's
\* planned path unmodified, for every prior gate state.
C17_DisabledIsPassThrough ==
  [][(ProcessStep /\ ~reuse_path)
       => /\ last'.status = "OK"
          /\ reused_path' = reused_path
          /\ last'.collision_free = "not_run" /\ last'.trim = "not_run"
          /\ last'.ignored = "not_run"
          /\ ~last'.path_set /\ PathUnchanged]_vars

C17_Witness ==
  /\ pc = "done" /\ ~reuse_path /\ last.branch = "pass_through"
  /\ reused_path /\ ObsNear \in obstacles
  /\ history_frame.present /\ Len(HistoryPath) > 0

\* C18: in a cycle with reuse enabled that starts with reused_path false,
\* reused_path is true when Process returns if and only if
\* front_static_obstacle_cycle_counter < kWaitCycle (-2) or
\* IsIgnoredBlockingObstacle is true; with the counter at exactly -2 and no
\* ignorable blocking obstacle the flag stays false.
C18_EnableIffWaitedOrIgnored ==
  [][(ProcessStep /\ reuse_path /\ ~NullArgument /\ ~reused_path)
       => /\ last'.status = "OK"
          /\ reused_path' <=> (front_static_obstacle_cycle_counter < -2 \/ IgnoredNow)]_vars

C18_Witness ==
  /\ pc = "done" /\ last.branch = "enable" /\ last.ignored = "false"
  /\ front_static_obstacle_cycle_counter = -2 /\ ~reused_path

\* The blocking obstacle named by front_static_obstacle_id is in the current
\* obstacle list and its start_s is ahead of the vehicle's s by gap.
BlockingObstacleAhead(gap) ==
  \E o \in obstacles :
     /\ o.id = front_static_obstacle_id
     /\ o.start_s - XYToSL(adc_position).s = gap

\* max(30 m, 3 s * speed), in half metres.
IgnoreBuffer == IF 3 * linear_velocity > 60 THEN 3 * linear_velocity ELSE 60

\* C19: IsIgnoredBlockingObstacle returns true if and only if
\* front_static_obstacle_id names an obstacle of the current list whose
\* start_s - adc_s is strictly greater than max(30 m, 3 s * speed); it
\* returns false when the id names no obstacle and when the distance equals
\* the buffer exactly, and it modifies no state.
C19_IgnoredIffBeyondBuffer ==
  [][(pc = "ready" /\ last'.branch = "IsIgnoredBlockingObstacle")
       => /\ last'.ignored = "true"
                <=> \E gap \in (IgnoreBuffer + 1)..RefEndX : BlockingObstacleAhead(gap)
          /\ BlockingObstacleAhead(IgnoreBuffer) => last'.ignored = "false"
          /\ UNCHANGED <<inputs, reused_path, reusable_path_counter_,
                         total_path_counter_, current_frame_planned_path>>]_vars

C19_Witness ==
  /\ pc = "done" /\ last.branch = "IsIgnoredBlockingObstacle"
  /\ last.ignored = "false"
  /\ BlockingObstacleAhead(IgnoreBuffer) /\ IgnoreBuffer > 60

\* C20: in every execution of TrimHistoryPath that reaches the anchor
\* insertion, path_start_index is below history_path.size(), for every
\* previous path and vehicle position, the empty path and the path with all
\* points behind the vehicle included.
C20_AnchorIndexInsidePath ==
  (TrimmerRan /\ history_frame.present)
    => TrimScan(HistoryPath, adc_position).path_start_index < Len(HistoryPath)

\* A cycle of C21: reuse enabled, Process called with a frame and reference
\* line info, and front_static_obstacle_cycle_counter below kWaitCycle.
WaitedCycle ==
  reuse_path /\ ~NullArgument /\ front_static_obstacle_cycle_counter < kWaitCycle

\* The Collision Checker accepted when the last call ran it.
CheckerAcceptedIfRun == last.branch = "reuse" => last.collision_free = "true"

\* C21: with reuse enabled, if from some cycle on the counter is below -2 in
\* every cycle and the Collision Checker accepts whenever it is run, then
\* from any gate state reused_path becomes true within one cycle and stays
\* true forever, and from the following cycle on the Collision Checker and
\* the Trimmer are run in every cycle. In parts: a cycle that starts with the
\* flag false ends, and ends with the flag true; a cycle that starts with the
\* flag true runs the checker and, when the checker accepts, keeps the flag
\* and runs the trimmer; and when the hypotheses hold from some point on, the
\* flag is true from some point on.
C21_ReuseResumesAndStays ==
  /\ (pc = "ready" /\ WaitedCycle /\ ~reused_path) ~> (pc = "done" /\ reused_path)
  /\ [][(ProcessStep /\ WaitedCycle)
          => IF reused_path
             THEN /\ last'.branch = "reuse"
                  /\ last'.collision_free = "true"
                       => /\ reused_path'
                          /\ \/ last'.trim # "not_run"
                             \/ last'.status = "SEGV"
             ELSE /\ reused_path' /\ last'.status = "OK"
                  /\ last'.collision_free = "not_run"]_vars
  /\ <>[](WaitedCycle /\ CheckerAcceptedIfRun) => <>[]reused_path

C21_Witness ==
  /\ pc = "done" /\ WaitedCycle /\ reused_path
  /\ last.branch = "reuse" /\ last.collision_free = "true" /\ last.trim = "true"
  /\ last.path_set /\ Len(current_frame_planned_path) > 1

====
